---- MODULE Spec2Model ----
(***************************************************************************)
(* Model of backend/server.js: an Express + Socket.IO chat backend over a  *)
(* MongoDB store accessed through Mongoose.                                *)
(*                                                                         *)
(* JavaScript runs a handler atomically from one `await` to the next, so   *)
(* every action below is one such run: it starts when an event (an HTTP    *)
(* request, a socket event, a reply of the store or of bcrypt) is handled  *)
(* and ends at the next `await` or at the end of the handler.  A store     *)
(* operation (findOne, insert) is executed by the store at the moment the  *)
(* action that consumes its reply is taken, which lets operations of       *)
(* concurrent handlers be executed in any order.                           *)
(*                                                                         *)
(* Environment assumption: the store is reachable.  A store call rejects   *)
(* only for a reason the program itself decides: a schema validation       *)
(* error (lines 34-47) or a duplicate key on the unique email index        *)
(* (line 37).                                                              *)
(***************************************************************************)
EXTENDS Integers, Sequences, FiniteSets, TLC

\* ------------------------------------------------------------------ bounds
\* POST /signup requests, sendMessage events and restarts of the process
\* taken in one behaviour, all together.
MaxEvents == 2

\* ------------------------------------------------------------------ values
\* A JSON field that is absent from the request body (JavaScript undefined).
NoValue == [type |-> "undefined"]
\* The result of a findOne that matches nothing (JavaScript null).
Null == [type |-> "null"]
\* A JavaScript string whose letter case plays no part in the program.
Str(s) == [type |-> "string", text |-> s]
\* A JavaScript string as the sequence of its characters.
Chars(seq) == [type |-> "string", chars |-> seq]
\* The value of `out` after a step that writes nothing to a client or the log.
NoOutput == [kind |-> "none"]

\* Strings whose letter case matters are sequences of characters.
UpperAlpha == <<"A","B","C","D","E","F","G","H","I","J","K","L","M",
                "N","O","P","Q","R","S","T","U","V","W","X","Y","Z">>
LowerAlpha == <<"a","b","c","d","e","f","g","h","i","j","k","l","m",
                "n","o","p","q","r","s","t","u","v","w","x","y","z">>

ToLowerChar(c) ==
  IF \E i \in 1..Len(UpperAlpha) : UpperAlpha[i] = c
  THEN LowerAlpha[CHOOSE i \in 1..Len(UpperAlpha) : UpperAlpha[i] = c]
  ELSE c

\* String.prototype.toLowerCase
ToLowerCase(s) == Chars([i \in 1..Len(s.chars) |-> ToLowerChar(s.chars[i])])

IsString(v) == v.type = "string"

AdminEmail   == Chars(<<"a","d","m","i","n","@","e","x","a","m","p","l","e",".","c","o","m">>)
TeacherEmail == Chars(<<"t","e","a","c","h","e","r","@","e","x","a","m","p","l","e",".","c","o","m">>)
ParentEmail  == Chars(<<"p","a","r","e","n","t","@","e","x","a","m","p","l","e",".","c","o","m">>)
JaneEmail    == Chars(<<"j","a","n","e","@","x",".","c","o","m">>)
JaneEmailCap == Chars(<<"J","a","n","e","@","X",".","c","o","m">>)

\* defaultUsers of initializeDefaultUsers
defaultUsers ==
  << [firstName |-> Str("Admin"),   lastName |-> Str("User"), email |-> AdminEmail,
      password |-> Str("admin123"),   role |-> Str("Admin")],
     [firstName |-> Str("Teacher"), lastName |-> Str("User"), email |-> TeacherEmail,
      password |-> Str("teacher123"), role |-> Str("Teacher")],
     [firstName |-> Str("Parent"),  lastName |-> Str("User"), email |-> ParentEmail,
      password |-> Str("parent123"),  role |-> Str("Parent")] >>

DefaultEmails == { defaultUsers[i].email : i \in 1..Len(defaultUsers) }

\* ------------------------------------------------------- request domains
SignupEmails     == { JaneEmail, JaneEmailCap, AdminEmail }
SignupFirstNames == { NoValue, Str("Jane") }
SignupLastNames  == { NoValue, Str("Doe") }
SignupPasswords  == { NoValue, Str("pw1") }
SignupRoles      == { NoValue, Str("Teacher") }
LoginEmails      == { NoValue, JaneEmail, JaneEmailCap }
LoginPasswords   == { NoValue, Str("pw1"), Str("wrong") }
\* Socket.IO clients.
Clients          == { "c1", "c2" }
\* An ObjectId.
Oid(n)           == [oid |-> n]
IsObjectId(v)    == "oid" \in DOMAIN v
\* An identifier that does not cast to an ObjectId.
BadId            == Str("not-an-objectid")
\* Identifiers a client may put in senderId / receiverId / the URL.
RefIds           == { Oid(1), Oid(2), BadId }
Contents         == { NoValue, Str("hi") }

VARIABLES
  users,      \* the User collection: a set of account documents
  messages,   \* the Message collection, in insertion (natural) order
  connected,  \* the sockets Socket.IO holds open
  emitted,    \* the ids of the messages io.emit was called for, in order
  req,        \* the POST /signup handlers suspended at an await
  send,       \* the sendMessage handlers suspended at an await
  seed,       \* initializeDefaultUsers: its position and locals
  events,     \* signup requests, sendMessage events and restarts so far
  sends,      \* sendMessage events so far (the clock read by Date.now)
  boots,      \* times the process was started
  out         \* what the last step wrote: an HTTP response, the events of
              \* an io.emit, or a console.error line

vars == << users, messages, connected, emitted, req, send, seed,
           events, sends, boots, out >>

\* ------------------------------------------------------------------ bcrypt
\* The cost factor passed to bcrypt.hash.
saltRounds == 10

\* bcrypt.hash(data, saltRounds) with the salt it drew.  The digest is an
\* ideal one-way function of the salt and the data, kept symbolic.
BcryptHash(data, salt) ==
  [type |-> "string",
   bcrypt |-> [rounds |-> saltRounds, salt |-> salt, digest |-> <<salt, data>>]]

\* bcrypt.compare(data, hash)
BcryptCompare(data, hash) == hash.bcrypt.digest = <<hash.bcrypt.salt, data>>

\* ------------------------------------------------------------------- store
\* userSchema: every field is a required String.
ValidUser(doc) ==
  /\ IsString(doc.firstName)
  /\ IsString(doc.lastName)
  /\ IsString(doc.email)
  /\ IsString(doc.password)
  /\ IsString(doc.role)

\* Mutant: the schema declares no unique index on email.
NoUniqueIndex(coll, doc) == FALSE

\* userSchema: email carries a unique index; an insert whose email another
\* document holds is rejected with a duplicate-key error.
DuplicateKey(coll, doc) == \E u \in coll : u.email = doc.email

\* The store after the insert of a user document.
InsertUser(coll, doc) == coll \cup { doc }

\* Mutant: the collection is capped and an insert evicts the oldest message.
InsertMessageCapped(coll, doc) ==
  IF coll = << >> THEN << doc >> ELSE Append(Tail(coll), doc)

\* The store after the insert of a message document: last in natural order.
InsertMessage(coll, doc) == Append(coll, doc)

\* User.findOne({ email: key }): exact, case-sensitive string match.
FindOne(coll, key) ==
  IF \E u \in coll : u.email = key
  THEN CHOOSE u \in coll : u.email = key
  ELSE Null

\* The documents that handlers have built and not yet saved.
PendingUserDocs ==
  { q.doc : q \in { x \in req : x.pc = "save" } }
    \cup (IF seed.pc = "save" THEN { seed.doc } ELSE {})

\* new User(...) gives the document an _id no other document has.
NewObjectId ==
  LET used == { u.id.oid : u \in users \cup PendingUserDocs }
      n == CHOOSE k \in 1..(Cardinality(used) + 1) :
             k \notin used /\ \A j \in 1..(k - 1) : j \in used
  IN  Oid(n)

\* The salt bcrypt draws for a hash: one no other hash has.
NewSalt == NewObjectId.oid

\* new User({ firstName, lastName, email, password, role })
NewUser(firstName, lastName, email, password, role) ==
  [id |-> NewObjectId, firstName |-> firstName, lastName |-> lastName,
   email |-> email, password |-> password, role |-> role]

\* -------------------------------------------------------------------- Init
Init ==
  /\ users = {}
  /\ messages = << >>
  /\ connected = {}
  /\ emitted = << >>
  /\ req = {}
  /\ send = {}
  /\ seed = [pc |-> "waiting"]
  /\ events = 0
  /\ sends = 0
  /\ boots = 1
  /\ out = NoOutput

\* ------------------------------------------------ initializeDefaultUsers
\* The loop moves on to the next default user, or returns after the last.
SeedAdvance(i) ==
  IF i < Len(defaultUsers) THEN [pc |-> "find", i |-> i + 1]
  ELSE [pc |-> "done"]

\* mongoose.connection.once('open'): initializeDefaultUsers is called and
\* issues the findOne for the first default user.
SeedOpen ==
  /\ seed.pc = "waiting"
  /\ seed' = [pc |-> "find", i |-> 1]
  /\ out' = NoOutput
  /\ UNCHANGED << users, messages, connected, emitted, req, send,
                  events, sends, boots >>

\* Mutant: the test of findOne's result is inverted.
SeedCreatesInverted(existingUser) == existingUser # Null

\* Whether the loop body creates the default user, given findOne's result.
SeedCreates(existingUser) == existingUser = Null

\* The findOne for default user i is answered; if it found nothing the
\* password is hashed and the document built, and save() is issued.
SeedFind ==
  /\ seed.pc = "find"
  /\ LET userData == defaultUsers[seed.i]
         existingUser == FindOne(users, userData.email)
     IN  IF SeedCreates(existingUser)
         THEN seed' = [pc |-> "save", i |-> seed.i,
                       doc |-> NewUser(userData.firstName, userData.lastName,
                                       userData.email,
                                       BcryptHash(userData.password, NewSalt),
                                       userData.role)]
         ELSE seed' = SeedAdvance(seed.i)
  /\ out' = NoOutput
  /\ UNCHANGED << users, messages, connected, emitted, req, send,
                  events, sends, boots >>

\* The save() of default user i is answered: the document is inserted (the
\* console.log of the creation is not recorded), or the duplicate-key
\* error is caught and written with console.error.  Either way the loop
\* goes on.
SeedSave ==
  /\ seed.pc = "save"
  /\ IF DuplicateKey(users, seed.doc)
     THEN /\ users' = users
          /\ out' = [kind |-> "log", text |-> "Error initializing default users:"]
     ELSE /\ users' = InsertUser(users, seed.doc)
          /\ out' = NoOutput
  /\ seed' = SeedAdvance(seed.i)
  /\ UNCHANGED << messages, connected, emitted, req, send,
                  events, sends, boots >>

\* ------------------------------------------------------------ POST /signup
SignupResponse(status, message) ==
  [kind |-> "http", route |-> "signup", status |-> status,
   body |-> [message |-> message]]

\* What the handler does with findOne's result: "reject" answers 400,
\* "create" goes on to hash the password and save.
SignupDecision(existingUser) ==
  IF existingUser # Null THEN "reject" ELSE "create"

\* Mutant: signup looks the account up by the lowercased email, as login does.
SignupLookupKeyLowered(email) == ToLowerCase(email)

\* The email the handler looks the account up by: the request's, as sent.
SignupLookupKey(email) == email

\* Mutant: the handler stores the password it was sent instead of the hash.
SignupDocumentPlain(firstName, lastName, email, hashedPassword, role) ==
  NewUser(firstName, lastName, email, hashedPassword.bcrypt.digest[2], role)

\* The document the handler builds from the request and the hash.
SignupDocument(firstName, lastName, email, hashedPassword, role) ==
  NewUser(firstName, lastName, email, hashedPassword, role)

\* A request is handled up to the answer of findOne({ email }); the code
\* before that await touches nothing shared.  An existing account ends the
\* request with 400.  Otherwise bcrypt.hash runs (it throws on a password
\* that is no string), the document is built and save() validates it (a
\* missing required field rejects); an exception ends the request with 500,
\* else the insert is issued and the handler waits for it.
Signup(firstName, lastName, email, password, role) ==
  /\ events < MaxEvents
  /\ events' = events + 1
  /\ LET existingUser == FindOne(users, SignupLookupKey(email))
         hashedPassword == BcryptHash(password, NewSalt)
         newUser == SignupDocument(firstName, lastName, email, hashedPassword, role)
     IN  IF SignupDecision(existingUser) = "reject"
         THEN /\ out' = SignupResponse(400, "Email already exists")
              /\ req' = req
         ELSE IF ~IsString(password) \/ ~ValidUser(newUser)
         THEN /\ out' = SignupResponse(500, "Server error during signup")
              /\ req' = req
         ELSE /\ out' = NoOutput
              /\ req' = req \cup
                   { [pc |-> "save", doc |-> newUser,
                      request |-> [firstName |-> firstName, lastName |-> lastName,
                                   email |-> email, password |-> password,
                                   role |-> role]] }
  /\ UNCHANGED << users, messages, connected, emitted, send, seed, sends, boots >>

\* save() is answered: the insert succeeded and the request ends with 201,
\* or the unique index rejected it and the catch block answers 500.
SignupSave(q) ==
  /\ q \in req
  /\ q.pc = "save"
  /\ IF DuplicateKey(users, q.doc)
     THEN /\ users' = users
          /\ out' = SignupResponse(500, "Server error during signup")
     ELSE /\ users' = InsertUser(users, q.doc)
          /\ out' = SignupResponse(201, "User created successfully")
  /\ req' = req \ {q}
  /\ UNCHANGED << messages, connected, emitted, send, seed, events, sends, boots >>

\* ------------------------------------------------------------- POST /login
\* The handler's response as a function of the store at its findOne.
\* email.toLowerCase() throws when email is no string, and bcrypt.compare
\* when password is no string; the catch block answers 500.
LoginLookupKey(email) == ToLowerCase(email)

LoginResponse(email, password) ==
  LET fail(status, message) ==
        [kind |-> "http", route |-> "login",
         status |-> status, body |-> [message |-> message]]
  IN  IF ~IsString(email)
      THEN fail(500, "Server error during login")
      ELSE LET user == FindOne(users, LoginLookupKey(email))
           IN  IF user = Null
               THEN fail(400, "Invalid email or password")
               ELSE IF ~IsString(password)
               THEN fail(500, "Server error during login")
               ELSE IF ~BcryptCompare(password, user.password)
               THEN fail(400, "Invalid email or password")
               ELSE [kind |-> "http", route |-> "login",
                     status |-> 200,
                     body |-> [message |-> "Login successful", user |-> user]]

Login(email, password) ==
  /\ out' = LoginResponse(email, password)
  /\ UNCHANGED << users, messages, connected, emitted, req, send, seed,
                  events, sends, boots >>

\* ------------------------------------------------------------ GET /chat/*
\* User.find({}, 'firstName lastName email role')
ListUsersResponse ==
  [kind |-> "http", route |-> "users", status |-> 200,
   body |-> { [id |-> u.id, firstName |-> u.firstName, lastName |-> u.lastName,
               email |-> u.email, role |-> u.role] : u \in users }]

\* User.find({ role })
ListByRoleResponse(route, role) ==
  [kind |-> "http", route |-> route, status |-> 200,
   body |-> { u \in users : u.role = role }]

ListUsers ==
  /\ out' = ListUsersResponse
  /\ UNCHANGED << users, messages, connected, emitted, req, send, seed,
                  events, sends, boots >>

ListTeachers ==
  /\ out' = ListByRoleResponse("teachers", Str("Teacher"))
  /\ UNCHANGED << users, messages, connected, emitted, req, send, seed,
                  events, sends, boots >>

ListParents ==
  /\ out' = ListByRoleResponse("parents", Str("Parent"))
  /\ UNCHANGED << users, messages, connected, emitted, req, send, seed,
                  events, sends, boots >>

\* Mutant: the filter has only its first branch.
MatchesOneDirection(m, currentUserId, otherUserId) ==
  m.sender = currentUserId /\ m.receiver = otherUserId

\* The $or filter of Message.find
MatchesConversation(m, currentUserId, otherUserId) ==
  \/ m.sender = currentUserId /\ m.receiver = otherUserId
  \/ m.sender = otherUserId /\ m.receiver = currentUserId

\* populate('sender receiver', 'firstName lastName'): the referenced account's
\* names, or null when no account has that _id.
Populate(id) ==
  IF \E u \in users : u.id = id
  THEN LET u == CHOOSE x \in users : x.id = id
       IN  [id |-> u.id, firstName |-> u.firstName, lastName |-> u.lastName]
  ELSE Null

\* Message.find({ $or: [...] }).populate(...): the matching messages in
\* natural order.  An identifier that is no ObjectId makes the query throw
\* a cast error, which the catch block answers with 500.
GetMessagesResponse(currentUserId, otherUserId) ==
  LET match(m) == MatchesConversation(m, currentUserId, otherUserId)
      found == SelectSeq(messages, match)
  IN  IF ~IsObjectId(currentUserId) \/ ~IsObjectId(otherUserId)
      THEN [kind |-> "http", route |-> "messages",
            status |-> 500, body |-> [message |-> "Error fetching messages"]]
      ELSE [kind |-> "http", route |-> "messages",
            status |-> 200,
            body |-> [i \in 1..Len(found) |->
                       [id |-> found[i].id,
                        sender |-> Populate(found[i].sender),
                        receiver |-> Populate(found[i].receiver),
                        content |-> found[i].content,
                        timestamp |-> found[i].timestamp]]]

GetMessages(currentUserId, otherUserId) ==
  /\ out' = GetMessagesResponse(currentUserId, otherUserId)
  /\ UNCHANGED << users, messages, connected, emitted, req, send, seed,
                  events, sends, boots >>

\* --------------------------------------------------------------- Socket.IO
\* io.on('connection'): the socket joins the set io.emit reaches.
Connect(c) ==
  /\ c \notin connected
  /\ connected' = connected \cup {c}
  /\ out' = NoOutput
  /\ UNCHANGED << users, messages, emitted, req, send, seed,
                  events, sends, boots >>

\* socket.on('disconnect'): Socket.IO has dropped the socket; the handler
\* only logs.
Disconnect(c) ==
  /\ c \in connected
  /\ connected' = connected \ {c}
  /\ out' = NoOutput
  /\ UNCHANGED << users, messages, emitted, req, send, seed,
                  events, sends, boots >>

\* messageSchema: sender and receiver are required ObjectIds, content is a
\* required String.
ValidMessage(doc) ==
  /\ IsObjectId(doc.sender)
  /\ IsObjectId(doc.receiver)
  /\ IsString(doc.content)

\* Mutant: socket.broadcast.emit, which leaves out the socket itself.
EmitTargetsOthers(from) == connected \ { from }

\* The sockets an io.emit called by a handler of socket `from` reaches.
EmitTargets(from) == connected

\* Mutant: the catch block reports the failure to the sending socket.
SendMessageCatchNotify(c) ==
  [kind |-> "emit", event |-> "messageError", to |-> { c }]

\* What the catch block of the handler of socket c's event does: a
\* console.error line, and nothing to any socket.
SendMessageCatch(c) ==
  [kind |-> "log", text |-> "Error handling sendMessage event:"]

\* Mutant: io.emit is called before the save is awaited.
SendOrderEmitFirst == << "emit", "save" >>

\* The handler's two effects in program order: `await message.save()`,
\* then io.emit.
SendOrder == << "save", "emit" >>

\* The position of a handler after `stage`; "end" after the last.
SendAfter(stage) ==
  LET i == CHOOSE k \in 1..Len(SendOrder) : SendOrder[k] = stage
  IN  IF i < Len(SendOrder) THEN SendOrder[i + 1] ELSE "end"

\* The handlers left once handler h has done its stage.
SendAdvance(h) ==
  IF SendAfter(h.pc) = "end" THEN send \ {h}
  ELSE (send \ {h}) \cup
         { [pc |-> SendAfter(h.pc), from |-> h.from, message |-> h.message] }

\* A sendMessage event of socket c is handled: the Message is built (its
\* timestamp defaults to Date.now(), a clock that ticks with every event)
\* and save() validates it.  A validation error is caught and logged and
\* the handler ends; otherwise the insert is issued.
SendMessage(c, senderId, receiverId, content) ==
  /\ c \in connected
  /\ events < MaxEvents
  /\ events' = events + 1
  /\ sends' = sends + 1
  /\ LET message == [id |-> sends + 1, sender |-> senderId,
                     receiver |-> receiverId, content |-> content,
                     timestamp |-> sends + 1]
     IN  IF ValidMessage(message)
         THEN /\ send' = send \cup
                   { [pc |-> SendOrder[1], from |-> c, message |-> message] }
              /\ out' = NoOutput
         ELSE /\ send' = send
              /\ out' = SendMessageCatch(c)
  /\ UNCHANGED << users, messages, connected, emitted, req, seed, boots >>

\* The store executes the insert of message.save() and the save resolves.
SendSave(h) ==
  /\ h \in send
  /\ h.pc = "save"
  /\ messages' = InsertMessage(messages, h.message)
  /\ send' = SendAdvance(h)
  /\ out' = NoOutput
  /\ UNCHANGED << users, connected, emitted, req, seed, events, sends, boots >>

\* The handler reaches io.emit('receiveMessage', ...).
SendEmit(h) ==
  /\ h \in send
  /\ h.pc = "emit"
  /\ emitted' = Append(emitted, h.message.id)
  /\ send' = SendAdvance(h)
  /\ out' = [kind |-> "emit", event |-> "receiveMessage",
             payload |-> [senderId |-> h.message.sender,
                          receiverId |-> h.message.receiver,
                          content |-> h.message.content,
                          timestamp |-> h.message.timestamp],
             to |-> EmitTargets(h.from)]
  /\ UNCHANGED << users, messages, connected, req, seed, events, sends, boots >>

\* ------------------------------------------------------------------- start
\* The process is started again: the script runs from the top with an empty
\* socket set and waits for the store connection to open.  The store
\* keeps what it holds.  Restarts are taken when no request or socket event
\* is being handled and no insert of the seeding is under way (the seeding
\* itself may be cut short between two default users).
Boot ==
  /\ events < MaxEvents
  /\ seed.pc \in { "find", "done" }
  /\ req = {}
  /\ send = {}
  /\ events' = events + 1
  /\ boots' = boots + 1
  /\ seed' = [pc |-> "waiting"]
  /\ connected' = {}
  /\ out' = NoOutput
  /\ UNCHANGED << users, messages, emitted, req, send, sends >>

NextAuth ==
  \/ SeedOpen
  \/ SeedFind
  \/ SeedSave
  \/ \E firstName \in SignupFirstNames, lastName \in SignupLastNames,
        email \in SignupEmails, password \in SignupPasswords,
        role \in SignupRoles :
        Signup(firstName, lastName, email, password, role)
  \/ \E q \in req : SignupSave(q)
  \/ \E email \in LoginEmails, password \in LoginPasswords : Login(email, password)
  \/ Boot

NextChat ==
  \/ \E a \in RefIds, b \in RefIds : GetMessages(a, b)
  \/ \E c \in Clients : Connect(c)
  \/ \E c \in Clients : Disconnect(c)
  \/ \E c \in Clients, a \in RefIds, b \in RefIds, content \in Contents :
        SendMessage(c, a, b, content)
  \/ \E h \in send : SendSave(h)
  \/ \E h \in send : SendEmit(h)

\* Every operation of the program together, each on a reduced input domain
\* (NextAuth and NextChat take the two halves on the full domains).
Next ==
  \/ SeedOpen
  \/ SeedFind
  \/ SeedSave
  \/ \E email \in { JaneEmail, AdminEmail }, password \in SignupPasswords :
        Signup(Str("Jane"), Str("Doe"), email, password, Str("Teacher"))
  \/ \E q \in req : SignupSave(q)
  \/ \E password \in { Str("pw1"), Str("wrong") } : Login(JaneEmail, password)
  \/ ListUsers
  \/ ListTeachers
  \/ ListParents
  \/ Boot
  \/ \E a \in { Oid(1), BadId } : GetMessages(a, Oid(2))
  \/ Connect("c1")
  \/ Disconnect("c1")
  \/ \E content \in Contents : SendMessage("c1", Oid(1), Oid(2), content)
  \/ \E h \in send : SendSave(h)
  \/ \E h \in send : SendEmit(h)

Spec == Init /\ [][Next]_vars
SpecAuth == Init /\ [][NextAuth]_vars
SpecChat == Init /\ [][NextChat]_vars

\* ================================================================== claims
AccountsWithEmail(email) == { u \in users : u.email = email }

\* C1: a POST /signup whose email is that of an account in the store is
\* answered 400 'Email already exists' whatever its other fields are, and
\* adds no account: the store is unchanged and no insert is left pending.
\* (Only a step that counts an event can be a Signup step.)
C1_DuplicateSignupRejected ==
  [][\A email \in SignupEmails :
       (events' = events + 1 /\ AccountsWithEmail(email) # {}) =>
         \A firstName \in SignupFirstNames, lastName \in SignupLastNames,
            password \in SignupPasswords, role \in SignupRoles :
            Signup(firstName, lastName, email, password, role)
            => /\ out' = [kind |-> "http", route |-> "signup", status |-> 400,
                          body |-> [message |-> "Email already exists"]]
               /\ users' = users
               /\ req' = req]_vars

\* C1 witness: a signup has just been answered 400 while an account holds
\* one of the signup emails.
C1_Witness ==
  /\ out.kind = "http"
  /\ out.route = "signup"
  /\ out.status = 400
  /\ \E email \in SignupEmails : AccountsWithEmail(email) # {}

\* C2 (as claimed): for well-formed requests, POST /login answers 200 iff
\* some account's email equals the request's when case is ignored and its
\* hash was made from the request's password, and 400 otherwise.
C2_LoginIffCaseInsensitiveMatch ==
  [][\A email \in LoginEmails, password \in LoginPasswords :
       ( /\ Login(email, password)
         /\ IsString(email)
         /\ IsString(password) )
       => LET matches ==
                \E u \in users :
                  /\ ToLowerCase(u.email) = ToLowerCase(email)
                  /\ u.password.bcrypt.digest[2] = password
          IN  /\ (out'.status = 200) <=> matches
              /\ ~matches => out'.status = 400]_vars

\* C3: once initializeDefaultUsers has run, however often, the store holds
\* exactly one account for each default email, and no step removes or
\* changes an account that holds a default email.
C3_SeedIdempotent ==
  /\ [](seed.pc = "done" =>
         \A email \in DefaultEmails : Cardinality(AccountsWithEmail(email)) = 1)
  /\ [][\A u \in users : u.email \in DefaultEmails => u \in users']_vars

\* C3 witness: the second run of the seeding has ended over a store in which
\* a default email was already held by an account made by signup.
C3_Witness ==
  /\ boots = 2
  /\ seed.pc = "done"
  /\ \E u \in users : u.email = AdminEmail /\ u.role = Str("Teacher")
  /\ \A email \in DefaultEmails : Cardinality(AccountsWithEmail(email)) = 1

\* C6: no two accounts in the store have the same email string.
C6_EmailsUnique ==
  \A u \in users, v \in users : u.email = v.email => u = v

\* C6 witness: two inserts of one email were pending together and one has
\* been executed; and accounts whose emails differ only in case coexist.
C6_Witness ==
  \/ \E q \in req : q.pc = "save" /\ AccountsWithEmail(q.doc.email) # {}
  \/ AccountsWithEmail(JaneEmail) # {} /\ AccountsWithEmail(JaneEmailCap) # {}

\* C10: a signup request is answered once, with 201, 400 or 500: either by
\* the step that handles it (400 or 500, nothing stored, nothing pending),
\* or, that step having stored nothing and left one save pending, by the
\* step that ends that save (201 or 500).  The store changes exactly in the
\* step answering 201, which adds one account with the request's email and
\* role and a hash of its password.  (Only a step that counts an event can
\* be a Signup step.)
C10_SignupOneResponse ==
  [][/\ events' = events + 1 =>
        \A firstName \in SignupFirstNames, lastName \in SignupLastNames,
          email \in SignupEmails, password \in SignupPasswords,
          role \in SignupRoles :
          \/ /\ users' = users
             /\ \/ /\ out'.kind = "http"
                   /\ out'.route = "signup"
                   /\ out'.status \in { 400, 500 }
                   /\ req' = req
                \/ /\ out' = NoOutput
                   /\ \E q \in req' :
                        /\ q \notin req
                        /\ req' = req \cup { q }
                        /\ q.request.email = email
                        /\ q.request.role = role
                        /\ q.request.password = password
          \/ ~Signup(firstName, lastName, email, password, role)
     /\ \A q \in req :
          SignupSave(q)
          => /\ out'.kind = "http"
             /\ out'.route = "signup"
             /\ out'.status \in { 201, 500 }
             /\ req' = req \ { q }
             /\ out'.status = 500 => users' = users
             /\ out'.status = 201 =>
                  \E u \in users' :
                    /\ u \notin users
                    /\ users' = users \cup { u }
                    /\ u.email = q.request.email
                    /\ u.role = q.request.role
                    /\ u.password # q.request.password
                    /\ BcryptCompare(q.request.password, u.password)]_vars

\* C10 witness: one signup has been answered 201 and its account is stored.
C10_Witness ==
  /\ out.kind = "http"
  /\ out.route = "signup"
  /\ out.status = 201
  /\ users # {}

StoredMessageIds == { messages[i].id : i \in 1..Len(messages) }

TimesEmitted(id) == Cardinality({ i \in 1..Len(emitted) : emitted[i] = id })

\* The ids of the messages a 200 response of GET /chat/messages carries.
ResponseMessageIds(response) ==
  { response.body[i].id : i \in 1..Len(response.body) }

\* C4: every stored message is returned by getMessages for its sender and
\* receiver, and has been broadcast exactly once or is held by the one
\* handler that is about to broadcast it; and an io.emit that has just run
\* carried the stored message's senderId, receiverId and content as
\* receiveMessage to every socket connected at that moment.
C4_PersistedAndBroadcastToAll ==
  /\ \A i \in 1..Len(messages) :
       LET m == messages[i]
           holders == { h \in send : h.message.id = m.id }
           response == GetMessagesResponse(m.sender, m.receiver)
       IN  /\ response.status = 200
           /\ m.id \in ResponseMessageIds(response)
           /\ \/ TimesEmitted(m.id) = 1 /\ holders = {}
              \/ /\ TimesEmitted(m.id) = 0
                 /\ \E h \in holders : holders = { h } /\ h.pc = "emit"
  /\ out.kind = "emit" =>
       /\ out.event = "receiveMessage"
       /\ out.to = connected
       /\ \E i \in 1..Len(messages) :
            /\ messages[i].id = emitted[Len(emitted)]
            /\ out.payload.senderId = messages[i].sender
            /\ out.payload.receiverId = messages[i].receiver
            /\ out.payload.content = messages[i].content

\* C4 witness: a receiveMessage has just been broadcast to both clients.
C4_Witness ==
  /\ out.kind = "emit"
  /\ out.to = Clients
  /\ Len(emitted) >= 1

\* C5: getMessages(A,B) answers 200 with exactly the stored messages sent
\* from A to B or from B to A, and getMessages(B,A) carries the same set.
C5_ConversationSymmetric ==
  \A a \in RefIds, b \in RefIds :
    (IsObjectId(a) /\ IsObjectId(b)) =>
      LET response == GetMessagesResponse(a, b)
      IN  /\ response.status = 200
          /\ ResponseMessageIds(response) =
               { messages[i].id : i \in
                   { k \in 1..Len(messages) :
                       \/ messages[k].sender = a /\ messages[k].receiver = b
                       \/ messages[k].sender = b /\ messages[k].receiver = a } }
          /\ ResponseMessageIds(response) =
               ResponseMessageIds(GetMessagesResponse(b, a))

\* C5 witness: a getMessages has just returned a conversation that holds a
\* message in each direction between two different accounts.
C5_Witness ==
  /\ out.kind = "http"
  /\ out.route = "messages"
  /\ out.status = 200
  /\ Len(out.body) = 2
  /\ \E i \in 1..Len(messages), j \in 1..Len(messages) :
       /\ messages[i].sender = Oid(1) /\ messages[i].receiver = Oid(2)
       /\ messages[j].sender = Oid(2) /\ messages[j].receiver = Oid(1)

\* C7: when the save of a sendMessage event is rejected the handler only
\* logs: no event goes to any socket, no handler stays behind to retry, the
\* stored messages and the log of broadcasts are unchanged and the socket
\* stays connected.  (Only a step that counts a sendMessage event can be a
\* SendMessage step.)
C7_FailedSaveIsSilent ==
  [][sends' = sends + 1 =>
       \A c \in Clients, a \in RefIds, b \in RefIds, content \in Contents :
         ( /\ ~IsObjectId(a) \/ ~IsObjectId(b) \/ ~IsString(content)
           /\ SendMessage(c, a, b, content) )
         => /\ out'.kind = "log"
            /\ messages' = messages
            /\ emitted' = emitted
            /\ send' = send
            /\ connected' = connected
            /\ c \in connected']_vars

\* C7 witness: a rejected save has just been logged while a socket is
\* connected and an earlier message is stored.
C7_Witness ==
  /\ out.kind = "log"
  /\ out.text = "Error handling sendMessage event:"
  /\ connected # {}
  /\ Len(messages) = 1

\* A step of login, of a list route, of getMessages, of connect or of
\* disconnect.
ReadOnlyStep ==
  \/ \E email \in LoginEmails, password \in LoginPasswords : Login(email, password)
  \/ ListUsers
  \/ ListTeachers
  \/ ListParents
  \/ \E a \in RefIds, b \in RefIds : GetMessages(a, b)
  \/ \E c \in Clients : Connect(c)
  \/ \E c \in Clients : Disconnect(c)

\* C8: no step removes or changes an account or a message, and a step that
\* changes the store is no step of login, of a list route, of getMessages,
\* of connect or of disconnect.
C8_StoreOnlyGrows ==
  [][/\ \A u \in users : u \in users'
     /\ Len(messages') >= Len(messages)
     /\ \A i \in 1..Len(messages) : messages'[i] = messages[i]
     /\ (users' # users \/ messages' # messages) => ~ReadOnlyStep]_vars

\* C8 witness: the store holds accounts and two messages, and a read-only
\* route has just answered.
C8_Witness ==
  /\ users # {}
  /\ Len(messages) = 2
  /\ out.kind = "http"
  /\ out.route \in { "login", "users", "teachers", "parents", "messages" }

\* C9: a message is broadcast only after it has been stored.
C9_BroadcastAfterOwnPersist ==
  \A i \in 1..Len(emitted) : emitted[i] \in StoredMessageIds

\* C9 witness: of two events in flight together, the one accepted second
\* has been stored first and broadcast first.
C9_Witness ==
  /\ Len(messages) = 2
  /\ messages[1].id = 2
  /\ messages[2].id = 1
  /\ emitted = << 2, 1 >>

====
